---- MODULE Spec2Model ----
(***************************************************************************)
(* Process supervision layer of the teleop control center (src/gui.py):    *)
(* TerminalPanel.start / kill / clear_output, the per-process reader       *)
(* thread _monitor_output, the output queue and its consumer, and          *)
(* TeleopControlCenter._emergency_stop.                                    *)
(*                                                                         *)
(* Threads.  Every button callback (start, kill, clear_output,             *)
(* _emergency_stop) runs on the one Tk main thread, so there is a single   *)
(* program counter `ui` for them.  Each successful spawn launches one      *)
(* _monitor_output thread; those threads and the subprocesses themselves   *)
(* run concurrently with the main thread.  One step of the model is one    *)
(* access to a shared field (is_running, the status label, process) or     *)
(* one interaction with the operating system.                              *)
(***************************************************************************)
EXTENDS Integers, Sequences, FiniteSets, TLC

\* ------------------------------------------------------------------ bounds
\* Button presses (callbacks dispatched on the main thread) after the initial
\* state; a press spawns at most one subprocess.
MaxOps == 2
\* Chunks waiting in one output queue: a producer's step waits for the
\* consumer when its push would exceed this (the queue itself is unbounded).
MaxQueue == 1

\* Chunks the producers put into the panels' queues in one run.
MaxChunks == 3

\* Characters in a command text handed to _build_ssh_command.
MaxCmdLen == 5

\* Items added to one episode before the operator ends it.
MaxSteps == 3

\* ----------------------------------------------------------- configuration
\* The panels of the console that the model operates (gui.py 524-540, 675):
\* three of the nine entries of all_panels, in their all_panels order.
all_panels == <<"neck", "zed", "teleop">>

\* The panels _start_g1_servers starts, in its order (gui.py 821-827).
g1_servers == <<"neck", "zed">>

Panels == {all_panels[k] : k \in 1..Len(all_panels)}

\* TerminalPanel(..., is_remote=True) for the G1 panels, default False.
is_remote(p) == p \in {"neck", "zed"}

\* TerminalPanel(..., custom_kill_cmd=...); "" stands for None.
custom_kill_cmd(p) ==
    CASE p = "neck" -> "pkill -f neck_teleop.py"
      [] p = "zed"  -> "pkill -9 OrinVideoSender"
      [] OTHER      -> ""

Spawns == 1..MaxOps

\* The texts a producer puts; two are enough to tell one order from another.
Chunks == {"a", "b"}

\* _update_status: the text it puts on the status label.
status_texts(s) ==
    CASE s = "stopped" -> "OFFLINE"
      [] s = "running" -> "ONLINE"
      [] s = "error"   -> "ERROR"
      [] s = "warning" -> "STARTING"
      [] OTHER         -> "OFFLINE"

\* ------------------------------------------------------------------- state
VARIABLES
    is_running,    \* [Panels -> BOOLEAN]           TerminalPanel.is_running
    status,        \* [Panels -> label text]        status_label text
    process,       \* [Panels -> 0..MaxOps]       TerminalPanel.process, 0 = None
    procs,         \* [Panels -> [Spawns -> state]] the OS view of each Popen child
    pipe,          \* [Panels -> [Spawns -> BOOLEAN]] the child's pipe holds unread lines
    mon,           \* [Panels -> [Spawns -> rec]]   the _monitor_output threads
    output_queue,  \* [Panels -> Seq(text)]         TerminalPanel.output_queue
    ui,            \* the main thread: the running callback and where it is
    ncalls,        \* callbacks dispatched since the initial state
    after_idle,    \* Seq(<<panel, text>>)  Tk idle callbacks queued by after_idle
    output_text,   \* [Panels -> Seq(text)] what the panels' text boxes show
    produced,      \* [Panels -> Seq(text)] history: the chunks put, in put order
    remote,        \* command texts of a remote panel and the ssh vectors built
    probe,         \* [Probes -> rec]       the test_connection threads
    after0,        \* Seq(BOOLEAN)          callbacks queued by root.after(0, ...)
    g1_status_label, \* text of the connection status label
    running,       \* server_data_record.main: the loop flag
    recording,     \* server_data_record.main: an episode is being recorded
    step_count,    \* server_data_record.main: idx of the next item
    prev_button_pressed, \* server_data_record.main: key_two in the last iteration
    button_pressed, \* server_data_record.main: key_two as read in this iteration
    main_pc,       \* server_data_record.main: the line the loop is at
    episode        \* history of the recorder's calls, see NoEpisode

\* The fields of the panels.
panel_vars == <<is_running, status, process, procs, pipe, mon>>

\* The display side of the output channels.
output_vars == <<after_idle, output_text, produced>>

\* The ssh wrapping and the connectivity probe.
center_vars == <<remote, probe, after0, g1_status_label>>

\* The locals of server_data_record.main and the history of its recorder.
recorder_vars == <<running, recording, step_count, prev_button_pressed, button_pressed,
                   main_pc, episode>>

vars == <<is_running, status, process, procs, pipe, mon, output_queue, ui, ncalls,
          after_idle, output_text, produced, remote, probe, after0, g1_status_label,
          running, recording, step_count, prev_button_pressed, button_pressed,
          main_pc, episode>>

\* The fields of the main thread's record.
\*   fn     the callback the main loop dispatched ("" while it is idle)
\*   pc     the line it is at; "idle" when the main loop is waiting
\*   p      the panel whose method is running
\*   i      _emergency_stop: index into all_panels
\*   pre    kill: is_running was true at the entry test
\*   sent   kill: signals delivered by this call
\*   clean  kill: outcome of the cleanup command run by this call
\*   err    kill: the call ended in its except handler
\*   began  _emergency_stop: panels with is_running true when it was called;
\*          _start_g1_servers: panels it has called start() on
\*   failed _emergency_stop: panels whose kill path failed in this run;
\*          _start_g1_servers: panels whose spawn failed in this run
NoCall == [fn |-> "", pc |-> "idle", p |-> all_panels[1], i |-> 0, pre |-> FALSE,
           sent |-> "none", clean |-> "none", err |-> FALSE,
           began |-> {}, failed |-> {}]

StartPcs == {"s277", "s315", "s294", "s303", "s304"}

KillPcs == {"k359", "k367", "k368", "k369", "k370", "k373", "k392", "k375", "k376"}

NoMon == [pc |-> "none", tgt |-> 0]

\* The test_connection threads: one started by the constructor (gui.py 427),
\* one more for every press of the Test SSH button.
Probes == 1..(MaxOps + 1)

\* A test_connection thread that has not been started.
\*   pc       "none", "run" (in subprocess.run), "done"
\*   exit     how subprocess.run ended: "none", or one of Outcomes
\*   result   what the thread passed to _update_g1_status: "none", "true", "false"
\*   reports  how many times _update_g1_status ran for this thread
NoProbe == [pc |-> "none", exit |-> "none", result |-> "none", reports |-> 0]

\* No command text wrapped yet.
NoRemote == [command |-> <<>>, custom_kill_cmd |-> <<>>, ssh_cmd |-> <<>>, cleanup_cmd |-> <<>>]

\* TerminalPanel.__init__: an empty queue and an empty text box.
InitOutput ==
    /\ output_queue = [p \in Panels |-> <<>>]
    /\ after_idle = <<>>
    /\ output_text = [p \in Panels |-> <<>>]
    /\ produced = [p \in Panels |-> <<>>]

\* TeleopControlCenter.__init__: the label reads "G1 OFFLINE" (gui.py 591) and
\* the constructor has called _test_g1_connection() once (gui.py 427).
InitCenter ==
    /\ remote = NoRemote
    /\ probe = [i \in Probes |-> IF i = 1 THEN [NoProbe EXCEPT !.pc = "run"] ELSE NoProbe]
    /\ after0 = <<>>
    /\ g1_status_label = "G1 OFFLINE"

\* What the recorder object has been asked to do, kept for the claims:
\*   open     an episode is open: the last create_episode() returned True
\*            and no save_episode() has followed it
\*   idx      the idx values passed to add_item() since the last create_episode()
\*   toggles  executions of `recording = not recording` (line 120) since
\*            key_two was last read as released
NoEpisode == [open |-> FALSE, idx |-> <<>>, toggles |-> 0]

\* server_data_record.py 78, 89-90, 98: recording = False, step_count = 0,
\* running = True, prev_button_pressed = False, at the top of the loop.
InitRecorder ==
    /\ running = TRUE
    /\ recording = FALSE
    /\ step_count = 0
    /\ prev_button_pressed = FALSE
    /\ button_pressed = FALSE
    /\ main_pc = "r106"
    /\ episode = NoEpisode

Init ==
    /\ is_running = [p \in Panels |-> FALSE]
    /\ status = [p \in Panels |-> "OFFLINE"]
    /\ process = [p \in Panels |-> 0]
    /\ procs = [p \in Panels |-> [i \in Spawns |-> "none"]]
    /\ pipe = [p \in Panels |-> [i \in Spawns |-> FALSE]]
    /\ mon = [p \in Panels |-> [i \in Spawns |-> NoMon]]
    /\ InitOutput
    /\ InitRecorder
    /\ InitCenter
    /\ ui = NoCall
    /\ ncalls = 0

\* ----------------------------------------------------------------- helpers
\* queue.LifoQueue in place of queue.Queue: put() adds at the end get() takes from.
_log_output_lifo(q, p, text) == [q EXCEPT ![p] = <<text>> \o @]

\* _log_output: self.output_queue.put(text); Queue() is unbounded, put never blocks.
_log_output(q, p, text) == [q EXCEPT ![p] = Append(@, text)]

\* The model's bound on pending chunks leaves room for k more in p's queue.
Room(p, k) == Len(output_queue[p]) + k <= MaxQueue

\* Number of Popen children the panel has created so far.
NSpawned(p) == Cardinality({i \in Spawns : procs[p][i] # "none"})

\* Popen.poll(): None while the child runs; otherwise the child is reaped
\* (waitpid) and its return code is cached.
PollIsNone(p, h) == procs[p][h] = "alive"

Reaped(pr, p, h) ==
    IF h # 0 /\ pr[p][h] = "exited" THEN [pr EXCEPT ![p][h] = "reaped"] ELSE pr

\* os.getpgid(pid) raises ProcessLookupError once the child has been reaped.
GetpgidRaises(p, h) == procs[p][h] = "reaped"

\* ------------------------------------------------------- main loop dispatch
\* A button press is dispatched only while the main loop is idle: all the
\* callbacks below run on the Tk main thread, one at a time.  Pressed(fn, p)
\* is the main thread's record as the callback begins.
Pressed(fn, p) == [NoCall EXCEPT !.fn = fn, !.p = p]

\* The main loop dispatches one more callback.
Dispatch == ui.pc = "idle" /\ ncalls < MaxOps /\ ncalls' = ncalls + 1

\* Back to the main loop.
Return(u) == NoCall

\* ------------------------------------------------------ TerminalPanel.start
\* _start_g1_servers without the time.sleep(1) of line 822: the next panel
\* is visited as soon as start() has returned.
StartReturn_nosleep(u) ==
    IF u.fn = "_start_g1_servers"
    THEN [u EXCEPT !.pc = "g820", !.i = @ + 1]
    ELSE Return(u)

\* start() returns: to the main loop, or to _start_g1_servers, which sleeps
\* one second after the first start (gui.py 822) and not after the last.
StartReturn(u) ==
    IF u.fn = "_start_g1_servers"
    THEN IF u.i < Len(g1_servers)
         THEN [u EXCEPT !.pc = "g822"]
         ELSE [u EXCEPT !.pc = "g820", !.i = @ + 1]
    ELSE Return(u)

\* start() without its entry test: it never takes the "already running" exit.
AlreadyRunning_untested(p) == FALSE

\* gui.py 277: if self.is_running
AlreadyRunning(p) == is_running[p]

\* gui.py 277-282: the entry test; "Process already running!" and return, or
\* "Starting: ..." and the STARTING label.  u is the caller's record.
start(p, u) ==
    /\ Room(p, 1)
    /\ IF AlreadyRunning(p)
       THEN /\ output_queue' = _log_output(output_queue, p, "Process already running!")
            /\ ui' = StartReturn(u)
            /\ UNCHANGED status
       ELSE /\ output_queue' = _log_output(output_queue, p, "Starting")
            /\ status' = [status EXCEPT ![p] = status_texts("warning")]
            /\ ui' = [u EXCEPT !.pc = IF is_remote(p) THEN "s315" ELSE "s294"]
    /\ UNCHANGED <<is_running, process, procs, pipe, mon, output_vars, center_vars, recorder_vars>>

\* START button: command=self.start (gui.py 187-188).
PressStart(p) == Dispatch /\ start(p, Pressed("start", p))

\* panel.start() called by _start_g1_servers (gui.py 821, 826).
CallStart(p) == ui.pc = "s277" /\ ui.p = p /\ start(p, ui) /\ UNCHANGED ncalls

\* gui.py 315: _start_remote logs "Connecting to G1..." before it spawns ssh.
_start_remote(p) ==
    /\ ui.pc = "s315" /\ ui.p = p
    /\ Room(p, 1)
    /\ output_queue' = _log_output(output_queue, p, "Connecting to G1...")
    /\ ui' = [ui EXCEPT !.pc = "s294"]
    /\ UNCHANGED <<is_running, status, process, procs, pipe, mon, ncalls, output_vars, center_vars, recorder_vars>>

\* _start_local / _start_remote without their try/except: a Popen that raises
\* ends start() and goes up to the caller's handler (for _start_g1_servers
\* the except at gui.py 830, which shows an error box and returns).
Popen_uncaught(p, ok) ==
    IF ok
    THEN /\ process' = [process EXCEPT ![p] = NSpawned(p) + 1]
         /\ procs' = [procs EXCEPT ![p][NSpawned(p) + 1] = "alive"]
         /\ ui' = [ui EXCEPT !.pc = "s303"]
         /\ UNCHANGED <<status, output_queue>>
    ELSE /\ ui' = Return(ui)
         /\ UNCHANGED <<status, output_queue, process, procs>>

\* gui.py 294-301 (_start_local) and 317-325 (_start_remote): Popen either
\* returns a new child, which becomes self.process, or raises.  In the except
\* handler (308-310, 333-335) the error is logged and the label set to ERROR.
Popen(p, ok) ==
    IF ok
    THEN /\ process' = [process EXCEPT ![p] = NSpawned(p) + 1]
         /\ procs' = [procs EXCEPT ![p][NSpawned(p) + 1] = "alive"]
         /\ ui' = [ui EXCEPT !.pc = "s303"]
         /\ UNCHANGED <<status, output_queue>>
    ELSE /\ Room(p, 1)
         /\ output_queue' = _log_output(output_queue, p,
                IF is_remote(p) THEN "Connection error" ELSE "Error")
         /\ status' = [status EXCEPT ![p] = status_texts("error")]
         /\ ui' = StartReturn([ui EXCEPT !.failed = @ \cup {p}])
         /\ UNCHANGED <<process, procs>>

_start_spawn(p) ==
    /\ ui.pc = "s294" /\ ui.p = p
    /\ \E ok \in BOOLEAN : Popen(p, ok)
    /\ UNCHANGED <<is_running, pipe, mon, ncalls, output_vars, center_vars, recorder_vars>>

\* gui.py 303 / 327: self.is_running = True
_start_set_running(p) ==
    /\ ui.pc = "s303" /\ ui.p = p
    /\ is_running' = [is_running EXCEPT ![p] = TRUE]
    /\ ui' = [ui EXCEPT !.pc = "s304"]
    /\ UNCHANGED <<status, process, procs, pipe, mon, output_queue, ncalls, output_vars, center_vars, recorder_vars>>

\* gui.py 304-306 / 328-331: the ONLINE label ("Connected to G1" for a remote
\* panel) and threading.Thread(target=self._monitor_output).start().  The new
\* thread belongs to the child just spawned, self.process.
_start_set_status(p) ==
    /\ ui.pc = "s304" /\ ui.p = p
    /\ Room(p, IF is_remote(p) THEN 1 ELSE 0)
    /\ status' = [status EXCEPT ![p] = status_texts("running")]
    /\ output_queue' = IF is_remote(p) THEN _log_output(output_queue, p, "Connected to G1")
                       ELSE output_queue
    /\ mon' = [mon EXCEPT ![p][process[p]] = [pc |-> "m340", tgt |-> 0]]
    /\ ui' = StartReturn(ui)
    /\ UNCHANGED <<is_running, process, procs, pipe, ncalls, output_vars, center_vars, recorder_vars>>

\* ------------------------------------------------------- the subprocesses
\* A running child writes a line to its merged stdout/stderr pipe.
ProcWrite(p, i) ==
    /\ procs[p][i] = "alive"
    /\ ~pipe[p][i]
    /\ pipe' = [pipe EXCEPT ![p][i] = TRUE]
    /\ UNCHANGED <<is_running, status, process, procs, mon, output_queue, ui, ncalls, output_vars, center_vars, recorder_vars>>

\* A running child exits, on its own or because SIGTERM was handled; it stays
\* a zombie until some poll() reaps it.
ProcExit(p, i) ==
    /\ procs[p][i] = "alive"
    /\ procs' = [procs EXCEPT ![p][i] = "exited"]
    /\ UNCHANGED <<is_running, status, process, pipe, mon, output_queue, ui, ncalls, output_vars, center_vars, recorder_vars>>

\* --------------------------------------------- TerminalPanel._monitor_output
\* gui.py 340: while self.process and self.process.poll() is None.  The thread
\* reads self.process afresh, whichever child it was started for.  While the
\* child runs the thread enters readline() on that child's stdout (341);
\* otherwise poll() has reaped the child and the loop ends.
_monitor_loop(p, i) ==
    /\ mon[p][i].pc = "m340"
    /\ LET h == process[p] IN
       IF h # 0 /\ PollIsNone(p, h)
       THEN /\ mon' = [mon EXCEPT ![p][i] = [pc |-> "m341", tgt |-> h]]
            /\ UNCHANGED procs
       ELSE /\ mon' = [mon EXCEPT ![p][i] = [pc |-> "m345", tgt |-> 0]]
            /\ procs' = Reaped(procs, p, h)
    /\ UNCHANGED <<is_running, status, process, pipe, output_queue, ui, ncalls, output_vars, center_vars, recorder_vars>>

\* gui.py 341-343: readline() blocks until a line or end-of-file.  A line is
\* pushed to the queue; decoding it (universal_newlines=True) may raise, which
\* lands in the except handler at 352-353 ("Monitor error").  End-of-file
\* returns '' and the loop test runs again.  More lines may wait behind the
\* one read.
_monitor_readline(p, i) ==
    /\ mon[p][i].pc = "m341"
    /\ LET t == mon[p][i].tgt IN
       IF pipe[p][t]
       THEN /\ Room(p, 1)
            /\ \E more \in BOOLEAN : pipe' = [pipe EXCEPT ![p][t] = more]
            /\ \E decoded \in BOOLEAN :
                 IF decoded
                 THEN /\ output_queue' = _log_output(output_queue, p, "line")
                      /\ mon' = [mon EXCEPT ![p][i] = [pc |-> "m340", tgt |-> 0]]
                 ELSE /\ output_queue' = _log_output(output_queue, p, "Monitor error")
                      /\ mon' = [mon EXCEPT ![p][i] = [pc |-> "m354", tgt |-> 0]]
       ELSE /\ procs[p][t] # "alive"
            /\ mon' = [mon EXCEPT ![p][i] = [pc |-> "m340", tgt |-> 0]]
            /\ UNCHANGED <<pipe, output_queue>>
    /\ UNCHANGED <<is_running, status, process, procs, ui, ncalls, output_vars, center_vars, recorder_vars>>

\* gui.py 345-347: if self.process: poll() again and the summary line.
_monitor_summary(p, i) ==
    /\ mon[p][i].pc = "m345"
    /\ Room(p, 1)
    /\ IF process[p] # 0
       THEN /\ procs' = Reaped(procs, p, process[p])
            /\ output_queue' = _log_output(output_queue, p, "Process finished")
       ELSE UNCHANGED <<procs, output_queue>>
    /\ mon' = [mon EXCEPT ![p][i].pc = "m349"]
    /\ UNCHANGED <<is_running, status, process, pipe, ui, ncalls, output_vars, center_vars, recorder_vars>>

\* gui.py 349: self.is_running = False
_monitor_set_running(p, i) ==
    /\ mon[p][i].pc = "m349"
    /\ is_running' = [is_running EXCEPT ![p] = FALSE]
    /\ mon' = [mon EXCEPT ![p][i].pc = "m350"]
    /\ UNCHANGED <<status, process, procs, pipe, output_queue, ui, ncalls, output_vars, center_vars, recorder_vars>>

\* gui.py 350: self._update_status("stopped", ...)
_monitor_set_status(p, i) ==
    /\ mon[p][i].pc = "m350"
    /\ status' = [status EXCEPT ![p] = status_texts("stopped")]
    /\ mon' = [mon EXCEPT ![p][i].pc = "done"]
    /\ UNCHANGED <<is_running, process, procs, pipe, output_queue, ui, ncalls, output_vars, center_vars, recorder_vars>>

\* An except handler that, besides line 354, sends SIGKILL to the group of
\* the panel's child.
_monitor_error_running_kills(p, i) ==
    /\ mon[p][i].pc = "m354"
    /\ is_running' = [is_running EXCEPT ![p] = FALSE]
    /\ mon' = [mon EXCEPT ![p][i].pc = "m355"]
    /\ procs' = [procs EXCEPT ![p] =
                   [j \in Spawns |-> IF j = process[p] /\ @[j] = "alive" THEN "exited" ELSE @[j]]]
    /\ UNCHANGED <<status, process, pipe, output_queue, ui, ncalls, output_vars, center_vars, recorder_vars>>

\* gui.py 354: the except handler's self.is_running = False
_monitor_error_running(p, i) ==
    /\ mon[p][i].pc = "m354"
    /\ is_running' = [is_running EXCEPT ![p] = FALSE]
    /\ mon' = [mon EXCEPT ![p][i].pc = "m355"]
    /\ UNCHANGED <<status, process, procs, pipe, output_queue, ui, ncalls, output_vars, center_vars, recorder_vars>>

\* gui.py 355: the except handler's self._update_status("error", ...)
_monitor_error_status(p, i) ==
    /\ mon[p][i].pc = "m355"
    /\ status' = [status EXCEPT ![p] = status_texts("error")]
    /\ mon' = [mon EXCEPT ![p][i].pc = "done"]
    /\ UNCHANGED <<is_running, process, procs, pipe, output_queue, ui, ncalls, output_vars, center_vars, recorder_vars>>

\* ------------------------------------------------------- TerminalPanel.kill
\* The kill path of a call failed: it ended in the except handler, or its
\* cleanup command did not exit with code 0.
KillPathFailed(u) == u.err \/ u.clean \in {"fail", "timeout", "spawnerr"}

\* kill() returns: to the main loop, or to the loop of _emergency_stop (859).
KillReturn(u) ==
    IF u.fn = "_emergency_stop"
    THEN [u EXCEPT !.pc = "es859", !.i = @ + 1,
                   !.failed = IF KillPathFailed(u) THEN @ \cup {u.p} ELSE @]
    ELSE Return(u)

\* The handler of kill() as `except Exception: pass`: nothing is logged.
kill_except_silent(p, sent) ==
    /\ output_queue' = output_queue
    /\ ui' = KillReturn([ui EXCEPT !.err = TRUE, !.sent = sent])

\* gui.py 379-380: except Exception as e: "Kill error"; nothing else is done.
kill_except(p, sent) ==
    /\ output_queue' = _log_output(output_queue, p, "Kill error")
    /\ ui' = KillReturn([ui EXCEPT !.err = TRUE, !.sent = sent])

\* gui.py 372: if self.custom_kill_cmd
AfterSignals(p) == IF custom_kill_cmd(p) # "" THEN "k373" ELSE "k375"

\* gui.py 359: if not self.is_running
NotRunning(p) == ~is_running[p]

\* gui.py 359-363: the entry test; "No process running!" and return, or
\* "Killing process...".
kill(p, u) ==
    /\ Room(p, 1)
    /\ IF NotRunning(p)
       THEN /\ output_queue' = _log_output(output_queue, p, "No process running!")
            /\ ui' = KillReturn(u)
       ELSE /\ output_queue' = _log_output(output_queue, p, "Killing process...")
            /\ ui' = [u EXCEPT !.pre = TRUE, !.pc = "k367"]
    /\ UNCHANGED <<is_running, status, process, procs, pipe, mon, output_vars, center_vars, recorder_vars>>

\* KILL button: command=self.kill (gui.py 194-195).
PressKill(p) == Dispatch /\ kill(p, Pressed("kill", p))

\* panel.kill() called by _emergency_stop (gui.py 861).
CallKill(p) == ui.pc = "k359" /\ ui.p = p /\ kill(p, ui) /\ UNCHANGED ncalls

\* gui.py 366-367: if self.process: os.killpg(os.getpgid(pid), SIGTERM).
\* getpgid raises for a reaped child; SIGTERM to a running or zombie group is
\* delivered, and a running child reacts to it in its own time (ProcExit).
_kill_sigterm(p) ==
    /\ ui.pc = "k367" /\ ui.p = p
    /\ Room(p, 1)
    /\ IF process[p] = 0
       THEN /\ ui' = [ui EXCEPT !.pc = AfterSignals(p)]
            /\ UNCHANGED output_queue
       ELSE IF GetpgidRaises(p, process[p])
       THEN kill_except(p, ui.sent)
       ELSE /\ ui' = [ui EXCEPT !.sent = "SIGTERM", !.pc = "k368"]
            /\ UNCHANGED output_queue
    /\ UNCHANGED <<is_running, status, process, procs, pipe, mon, ncalls, output_vars, center_vars, recorder_vars>>

\* kill() with self.process.wait() in place of the sleep: it goes on when
\* the child has ended.
_kill_sleep_waits(p) ==
    /\ ui.pc = "k368" /\ ui.p = p
    /\ procs[p][process[p]] # "alive"
    /\ ui' = [ui EXCEPT !.pc = "k369"]
    /\ UNCHANGED <<is_running, status, process, procs, pipe, mon, output_queue, ncalls, output_vars, center_vars, recorder_vars>>

\* gui.py 368: time.sleep(1), the grace period.
_kill_sleep(p) ==
    /\ ui.pc = "k368" /\ ui.p = p
    /\ ui' = [ui EXCEPT !.pc = "k369"]
    /\ UNCHANGED <<is_running, status, process, procs, pipe, mon, output_queue, ncalls, output_vars, center_vars, recorder_vars>>

\* kill() without the test of line 369: the SIGKILL follows the sleep
\* whether or not the child is still running.
_kill_poll_always_escalates(p) ==
    /\ ui.pc = "k369" /\ ui.p = p
    /\ ui' = [ui EXCEPT !.pc = "k370"]
    /\ procs' = Reaped(procs, p, process[p])
    /\ UNCHANGED <<is_running, status, process, pipe, mon, output_queue, ncalls, output_vars, center_vars, recorder_vars>>

\* gui.py 369: if self.process.poll() is None
_kill_poll(p) ==
    /\ ui.pc = "k369" /\ ui.p = p
    /\ IF PollIsNone(p, process[p])
       THEN /\ ui' = [ui EXCEPT !.pc = "k370"]
            /\ UNCHANGED procs
       ELSE /\ ui' = [ui EXCEPT !.pc = AfterSignals(p)]
            /\ procs' = Reaped(procs, p, process[p])
    /\ UNCHANGED <<is_running, status, process, pipe, mon, output_queue, ncalls, output_vars, center_vars, recorder_vars>>

\* gui.py 370: os.killpg(os.getpgid(pid), SIGKILL).  The child may have exited
\* and been reaped by a reader thread since the poll() of 369: getpgid raises.
\* SIGKILL ends a running child at once.
_kill_sigkill(p) ==
    /\ ui.pc = "k370" /\ ui.p = p
    /\ Room(p, 1)
    /\ IF GetpgidRaises(p, process[p])
       THEN /\ kill_except(p, ui.sent)
            /\ UNCHANGED procs
       ELSE /\ procs' = [procs EXCEPT ![p][process[p]] =
                           IF @ = "alive" THEN "exited" ELSE @]
            /\ ui' = [ui EXCEPT !.sent = "SIGTERM,SIGKILL", !.pc = AfterSignals(p)]
            /\ UNCHANGED output_queue
    /\ UNCHANGED <<is_running, status, process, pipe, mon, ncalls, output_vars, center_vars, recorder_vars>>

\* The outcomes of subprocess.run(cleanup_cmd, ..., timeout=10) (gui.py 392):
\* exit code 0, another exit code, TimeoutExpired, or a spawn error (OSError).
CleanupOutcomes == {"ok", "fail", "timeout", "spawnerr"}

\* The line _execute_cleanup_command logs for an outcome (gui.py 394-400).
CleanupLine(outcome) ==
    CASE outcome = "ok"   -> "Cleanup successful"
      [] outcome = "fail" -> "Cleanup failed"
      [] OTHER            -> "Cleanup error"

\* _execute_cleanup_command catching no exception: a timeout or a spawn
\* error of the cleanup command reaches the except handler of kill().
_execute_cleanup_command_uncaught(p, outcome) ==
    IF outcome \in {"timeout", "spawnerr"}
    THEN kill_except(p, ui.sent)
    ELSE /\ output_queue' = _log_output(output_queue, p, CleanupLine(outcome))
         /\ ui' = [ui EXCEPT !.clean = outcome, !.pc = "k375"]

\* gui.py 386-400: _execute_cleanup_command runs the command (through
\* _build_ssh_command for a remote panel), logs the outcome and returns; its
\* own except Exception swallows a timeout or a spawn error, so kill() goes on
\* to line 375.
_execute_cleanup_command(p, outcome) ==
    /\ output_queue' = _log_output(output_queue, p, CleanupLine(outcome))
    /\ ui' = [ui EXCEPT !.clean = outcome, !.pc = "k375"]

\* gui.py 372-373, 384: if self.custom_kill_cmd: the call of
\* _execute_cleanup_command, which first logs "Cleanup: ...".
_kill_cleanup_begin(p) ==
    /\ ui.pc = "k373" /\ ui.p = p
    /\ Room(p, 1)
    /\ output_queue' = _log_output(output_queue, p, "Cleanup")
    /\ ui' = [ui EXCEPT !.pc = "k392"]
    /\ UNCHANGED <<is_running, status, process, procs, pipe, mon, ncalls, output_vars, center_vars, recorder_vars>>

\* gui.py 392: subprocess.run(cleanup_cmd, ..., timeout=10) and its outcome.
_kill_cleanup(p) ==
    /\ ui.pc = "k392" /\ ui.p = p
    /\ Room(p, 1)
    /\ \E outcome \in CleanupOutcomes : _execute_cleanup_command(p, outcome)
    /\ UNCHANGED <<is_running, status, process, procs, pipe, mon, ncalls, output_vars, center_vars, recorder_vars>>

\* gui.py 375: self.is_running = False
_kill_set_running(p) ==
    /\ ui.pc = "k375" /\ ui.p = p
    /\ is_running' = [is_running EXCEPT ![p] = FALSE]
    /\ ui' = [ui EXCEPT !.pc = "k376"]
    /\ UNCHANGED <<status, process, procs, pipe, mon, output_queue, ncalls, output_vars, center_vars, recorder_vars>>

\* gui.py 376-377: the OFFLINE label and "Process killed".
_kill_set_status(p) ==
    /\ ui.pc = "k376" /\ ui.p = p
    /\ status' = [status EXCEPT ![p] = status_texts("stopped")]
    /\ Room(p, 1)
    /\ output_queue' = _log_output(output_queue, p, "Process killed")
    /\ ui' = KillReturn(ui)
    /\ UNCHANGED <<is_running, process, procs, pipe, mon, ncalls, output_vars, center_vars, recorder_vars>>

\* ------------------------------------------ TerminalPanel.clear_output etc.
\* clear_output resetting the panel as well as its text box.
clear_output_resets(p) ==
    /\ Dispatch
    /\ Room(p, 1)
    /\ output_text' = [output_text EXCEPT ![p] = <<>>]
    /\ output_queue' = _log_output(output_queue, p, "Output cleared")
    /\ is_running' = [is_running EXCEPT ![p] = FALSE]
    /\ status' = [status EXCEPT ![p] = status_texts("stopped")]
    /\ UNCHANGED <<process, procs, pipe, mon, ui, after_idle, produced, center_vars, recorder_vars>>

\* CLEAR button: command=self.clear_output (gui.py 201-202, 402-405).  The
\* text box is emptied and "Output cleared" is pushed to the queue.
clear_output(p) ==
    /\ Dispatch
    /\ Room(p, 1)
    /\ output_text' = [output_text EXCEPT ![p] = <<>>]
    /\ output_queue' = _log_output(output_queue, p, "Output cleared")
    /\ UNCHANGED <<is_running, status, process, procs, pipe, mon, ui, after_idle, produced, center_vars, recorder_vars>>

\* gui.py 261-268: _output_reader takes the oldest chunk off the queue and
\* hands it to the text box.
_output_reader(p) ==
    /\ output_queue[p] # <<>>
    /\ output_queue' = [output_queue EXCEPT ![p] = Tail(@)]
    /\ UNCHANGED <<is_running, status, process, procs, pipe, mon, ui, ncalls, output_vars, center_vars, recorder_vars>>

\* ------------------------------------- TeleopControlCenter._emergency_stop
\* EMERGENCY STOP button: command=self._emergency_stop (gui.py 494-495).
PressEmergencyStop ==
    /\ Dispatch
    /\ ui' = [NoCall EXCEPT !.fn = "_emergency_stop", !.pc = "es859", !.i = 1,
                            !.began = {p \in Panels : is_running[p]}]
    /\ UNCHANGED <<is_running, status, process, procs, pipe, mon, output_queue, output_vars, center_vars, recorder_vars>>

\* gui.py 860: if panel.is_running
EsMustKill(p) == is_running[p]

\* gui.py 859-861: for panel in self.all_panels: if panel.is_running:
\* panel.kill().  A panel whose flag is false is passed over.
_emergency_stop_visit ==
    /\ ui.fn = "_emergency_stop" /\ ui.pc = "es859"
    /\ ui.i <= Len(all_panels)
    /\ LET p == all_panels[ui.i] IN
       IF EsMustKill(p)
       THEN ui' = [ui EXCEPT !.p = p, !.pc = "k359", !.pre = FALSE, !.sent = "none",
                             !.clean = "none", !.err = FALSE]
       ELSE ui' = [ui EXCEPT !.p = p, !.i = @ + 1]
    /\ UNCHANGED <<is_running, status, process, procs, pipe, mon, output_queue, ncalls, output_vars, center_vars, recorder_vars>>

\* gui.py 862: messagebox.showinfo(..., "All processes killed successfully!")
_emergency_stop_report ==
    /\ ui.fn = "_emergency_stop" /\ ui.pc = "es859"
    /\ ui.i > Len(all_panels)
    /\ ui' = Return(ui)
    /\ UNCHANGED <<is_running, status, process, procs, pipe, mon, output_queue, ncalls, output_vars, center_vars, recorder_vars>>

\* ------------------------------------------- the output channel to the display
\* The number of chunks put so far into the queues of the first k panels.
RECURSIVE NProduced(_)
NProduced(k) == IF k = 0 THEN 0 ELSE Len(produced[all_panels[k]]) + NProduced(k - 1)

\* _log_output on a queue.Queue(maxsize=1) with put_nowait: a chunk put
\* while another is pending is dropped.
Put_dropping(p, text) ==
    /\ NProduced(Len(all_panels)) < MaxChunks
    /\ output_queue' = IF output_queue[p] = <<>> THEN _log_output(output_queue, p, text)
                       ELSE output_queue
    /\ produced' = [produced EXCEPT ![p] = Append(@, text)]
    /\ UNCHANGED <<panel_vars, ui, ncalls, after_idle, output_text, center_vars, recorder_vars>>

\* A producer (the reader thread, or a method on the main thread) calls
\* _log_output(text), gui.py 244-246.  `produced` keeps what was put, in order.
Put(p, text) ==
    /\ NProduced(Len(all_panels)) < MaxChunks
    /\ output_queue' = _log_output(output_queue, p, text)
    /\ produced' = [produced EXCEPT ![p] = Append(@, text)]
    /\ UNCHANGED <<panel_vars, ui, ncalls, after_idle, output_text, center_vars, recorder_vars>>

\* gui.py 263-266: the consumer thread takes the oldest chunk off the queue
\* and registers lambda t=text: self._insert_text(t) with after_idle; Tk keeps
\* its idle callbacks in the order they were registered.
_output_reader_get(p) ==
    /\ output_queue[p] # <<>>
    /\ output_queue' = [output_queue EXCEPT ![p] = Tail(@)]
    /\ after_idle' = Append(after_idle, <<p, Head(output_queue[p])>>)
    /\ UNCHANGED <<panel_vars, ui, ncalls, output_text, produced, center_vars, recorder_vars>>

\* gui.py 270-273: the idle main loop runs the oldest idle callback;
\* _insert_text inserts the chunk at the end of the panel's text box.
_insert_text ==
    /\ ui.pc = "idle"
    /\ after_idle # <<>>
    /\ LET c == Head(after_idle) IN
         output_text' = [output_text EXCEPT ![c[1]] = Append(@, c[2])]
    /\ after_idle' = Tail(after_idle)
    /\ UNCHANGED <<panel_vars, output_queue, ui, ncalls, produced, center_vars, recorder_vars>>

\* ------------------------------------ TeleopControlCenter._start_g1_servers
\* "Start G1 Servers" button: command=self._start_g1_servers (gui.py 569).
PressStartG1 ==
    /\ Dispatch
    /\ ui' = [NoCall EXCEPT !.fn = "_start_g1_servers", !.pc = "g820", !.i = 1]
    /\ UNCHANGED <<panel_vars, output_queue, output_vars, center_vars, recorder_vars>>

\* gui.py 820 / 825: if not panel.is_running
GroupMustStart(p) == ~is_running[p]

\* gui.py 820-821, 825-826: if not panel.is_running: panel.start().  A panel
\* whose flag is true is passed over, without the sleep.
_start_g1_servers_visit ==
    /\ ui.fn = "_start_g1_servers" /\ ui.pc = "g820"
    /\ ui.i <= Len(g1_servers)
    /\ LET p == g1_servers[ui.i] IN
       IF GroupMustStart(p)
       THEN ui' = [ui EXCEPT !.p = p, !.pc = "s277", !.began = @ \cup {p}]
       ELSE ui' = [ui EXCEPT !.p = p, !.i = @ + 1]
    /\ UNCHANGED <<panel_vars, output_queue, ncalls, output_vars, center_vars, recorder_vars>>

\* gui.py 822: time.sleep(1) on the main thread, then the next panel.
_start_g1_servers_sleep ==
    /\ ui.fn = "_start_g1_servers" /\ ui.pc = "g822"
    /\ ui' = [ui EXCEPT !.pc = "g820", !.i = @ + 1]
    /\ UNCHANGED <<panel_vars, output_queue, ncalls, output_vars, center_vars, recorder_vars>>

\* gui.py 828: messagebox.showinfo("G1 Servers", ...) and the return.
_start_g1_servers_report ==
    /\ ui.fn = "_start_g1_servers" /\ ui.pc = "g820"
    /\ ui.i > Len(g1_servers)
    /\ ui' = Return(ui)
    /\ UNCHANGED <<panel_vars, output_queue, ncalls, output_vars, center_vars, recorder_vars>>

\* ------------------------------------------ TerminalPanel._build_ssh_command
\* Command texts are sequences of characters.
sudo == <<"s", "u", "d", "o">>

\* The characters of the bounded command texts: those of "sudo".
Alphabet == {"s", "u", "d", "o"}

\* Every text of at most MaxCmdLen characters.
Texts == UNION {[1..n -> Alphabet] : n \in 0..MaxCmdLen}

\* One text with "sudo" in it and one without.
SampleTexts == {sudo, <<"d", "o">>}

\* gui.py 317: the text _start_remote wraps is f"cd ~ && {self.command}".
CdHome(command) == <<"c", "d", " ", "~", " ", "&", "&", " ">> \o command

\* Python's `sub in text` for strings: the leftmost position from k on at
\* which text continues with sub, if there is one.
RECURSIVE Find(_, _, _)
Find(sub, text, k) ==
    IF k + Len(sub) - 1 > Len(text) THEN FALSE
    ELSE IF SubSeq(text, k, k + Len(sub) - 1) = sub THEN TRUE
    ELSE Find(sub, text, k + 1)

\* _build_ssh_command testing remote_command.startswith("sudo") instead.
_build_ssh_command_startswith(remote_command) ==
    <<"ssh">>
    \o (IF Len(remote_command) >= 4 /\ SubSeq(remote_command, 1, 4) = sudo
        THEN <<"-t">> ELSE <<>>)
    \o <<"-o", "StrictHostKeyChecking=no", "-o", "LogLevel=ERROR", "g1">>
    \o <<[text |-> remote_command]>>

\* gui.py 248-259: ["ssh"], "-t" if "sudo" in remote_command, the two -o
\* options, the host and the command text as the last argument.
_build_ssh_command(remote_command) ==
    <<"ssh">>
    \o (IF Find(sudo, remote_command, 1) THEN <<"-t">> ELSE <<>>)
    \o <<"-o", "StrictHostKeyChecking=no", "-o", "LogLevel=ERROR", "g1">>
    \o <<[text |-> remote_command]>>

\* gui.py 317: _start_remote builds the vector for its command.
BuildStart ==
    /\ remote.ssh_cmd = <<>>
    /\ remote' = [remote EXCEPT !.ssh_cmd = _build_ssh_command(CdHome(remote.command))]
    /\ UNCHANGED <<panel_vars, output_queue, ui, ncalls, output_vars, recorder_vars, probe, after0, g1_status_label>>

\* gui.py 387-388: _execute_cleanup_command builds the vector for the cleanup
\* command of a remote panel.
BuildCleanup ==
    /\ remote.cleanup_cmd = <<>>
    /\ remote' = [remote EXCEPT !.cleanup_cmd = _build_ssh_command(remote.custom_kill_cmd)]
    /\ UNCHANGED <<panel_vars, output_queue, ui, ncalls, output_vars, recorder_vars, probe, after0, g1_status_label>>

\* ------------------------------ TeleopControlCenter._test_g1_connection
\* The ways subprocess.run(ssh_cmd, ..., timeout=10) ends (gui.py 730): ssh
\* exits with 0, ssh exits with another code (255 when the host is not
\* reached within ConnectTimeout=5), TimeoutExpired after ten seconds, or
\* another exception (ssh not installed).
Outcomes == {"0", "255", "timeout", "exception"}

\* The boolean as the model's probe record keeps it.
Bool(b) == IF b THEN "true" ELSE "false"

\* "Test SSH" button: command=self._test_g1_connection (gui.py 597).  The
\* callback starts a daemon thread on test_connection (gui.py 738) and
\* returns to the main loop.
_test_g1_connection ==
    /\ Dispatch
    /\ \E i \in Probes :
         /\ probe[i].pc = "none"
         /\ \A j \in Probes : j < i => probe[j].pc # "none"
         /\ probe' = [probe EXCEPT ![i].pc = "run"]
    /\ UNCHANGED <<panel_vars, output_queue, ui, output_vars, recorder_vars, remote, after0, g1_status_label>>

\* test_connection without its except clause: the thread ends on a timeout
\* or another exception and registers nothing.
test_connection_uncaught(i, outcome) ==
    /\ probe[i].pc = "run"
    /\ IF outcome \in {"0", "255"}
       THEN LET connected == outcome = "0" IN
            /\ after0' = Append(after0, [probe |-> i, connected |-> connected])
            /\ probe' = [probe EXCEPT ![i].pc = "done", ![i].exit = outcome,
                                      ![i].result = Bool(connected)]
       ELSE /\ after0' = after0
            /\ probe' = [probe EXCEPT ![i].pc = "done", ![i].exit = outcome]
    /\ UNCHANGED <<panel_vars, output_queue, ui, ncalls, output_vars, recorder_vars, remote, g1_status_label>>

\* gui.py 725-736, on the thread: subprocess.run ends; connected is
\* result.returncode == 0 (732), or False in the except clause (735-736);
\* self.root.after(0, ...) registers _update_g1_status(connected) with the
\* main loop.
test_connection(i, outcome) ==
    /\ probe[i].pc = "run"
    /\ LET connected == IF outcome \in {"timeout", "exception"} THEN FALSE
                        ELSE outcome = "0" IN
         /\ after0' = Append(after0, [probe |-> i, connected |-> connected])
         /\ probe' = [probe EXCEPT ![i].pc = "done", ![i].exit = outcome,
                                   ![i].result = Bool(connected)]
    /\ UNCHANGED <<panel_vars, output_queue, ui, ncalls, output_vars, recorder_vars, remote, g1_status_label>>

\* gui.py 740-745: the idle main loop runs the oldest after(0) callback;
\* _update_g1_status sets the label from its argument.
_update_g1_status ==
    /\ ui.pc = "idle"
    /\ after0 # <<>>
    /\ LET c == Head(after0) IN
         /\ g1_status_label' = IF c.connected THEN "G1 ONLINE" ELSE "G1 OFFLINE"
         /\ probe' = [probe EXCEPT ![c.probe].reports = @ + 1]
    /\ after0' = Tail(after0)
    /\ UNCHANGED <<panel_vars, output_queue, ui, ncalls, output_vars, recorder_vars, remote>>

\* ------------------------------------------ server_data_record.main, the loop
\* The frame of every step of the recorder: the control center is another
\* process.
GuiUnchanged == UNCHANGED <<panel_vars, output_queue, ui, ncalls, output_vars, center_vars>>

\* server_data_record.py 106-115: the controller state is read from Redis;
\* quit_key ends the loop at once (break).  The read is outside every try:
\* when it raises (Redis away, no controller_data yet) main ends through its
\* finally clause.  An episode that holds MaxSteps items is ended by the
\* operator: the button is pressed anew, or the loop is quit.
ReadController ==
    /\ main_pc = "r106" /\ running
    /\ \E key_two, axis_click, raised \in BOOLEAN :
         /\ (recording /\ step_count >= MaxSteps)
              => (axis_click \/ raised \/ (key_two /\ ~prev_button_pressed))
         /\ IF raised
            THEN /\ main_pc' = "done"
                 /\ UNCHANGED <<running, button_pressed, episode>>
            ELSE /\ button_pressed' = key_two
                 /\ episode' = [episode EXCEPT !.toggles = IF key_two THEN @ ELSE 0]
                 /\ IF axis_click
                    THEN running' = FALSE /\ main_pc' = "done"
                    ELSE running' = running /\ main_pc' = "r118"
    /\ UNCHANGED <<recording, step_count, prev_button_pressed>>
    /\ GuiUnchanged

\* The test of line 118 on the level of the button alone.
RisingEdge_level == button_pressed

\* server_data_record.py 118: if button_pressed and not prev_button_pressed
RisingEdge == button_pressed /\ ~prev_button_pressed

\* server_data_record.py 118-121, 127: on a rising edge recording is
\* toggled; the new value decides between create_episode and save_episode.
ToggleRecording ==
    /\ main_pc = "r118"
    /\ IF RisingEdge
       THEN /\ recording' = ~recording
            /\ episode' = [episode EXCEPT !.toggles = IF @ < 2 THEN @ + 1 ELSE @]
            /\ main_pc' = IF ~recording THEN "r123" ELSE "r128"
       ELSE /\ main_pc' = "r132"
            /\ UNCHANGED <<recording, episode>>
    /\ UNCHANGED <<running, step_count, prev_button_pressed, button_pressed>>
    /\ GuiUnchanged

\* The episode start without line 124: recording stays True when
\* create_episode() returned False.
create_episode_unchecked ==
    /\ main_pc = "r123"
    /\ \E ok \in BOOLEAN :
         episode' = [episode EXCEPT !.open = ok, !.idx = <<>>]
    /\ step_count' = 0
    /\ main_pc' = "r132"
    /\ UNCHANGED <<running, recording, prev_button_pressed, button_pressed>>
    /\ GuiUnchanged

\* server_data_record.py 123-125: recorder.create_episode() returns True or
\* False; on False recording is set back to False; step_count = 0 either way.
create_episode ==
    /\ main_pc = "r123"
    /\ \E ok \in BOOLEAN :
         /\ recording' = ok
         /\ episode' = [episode EXCEPT !.open = ok, !.idx = <<>>]
    /\ step_count' = 0
    /\ main_pc' = "r132"
    /\ UNCHANGED <<running, prev_button_pressed, button_pressed>>
    /\ GuiUnchanged

\* server_data_record.py 128: recorder.save_episode()
save_episode ==
    /\ main_pc = "r128"
    /\ episode' = [episode EXCEPT !.open = FALSE]
    /\ main_pc' = "r132"
    /\ UNCHANGED <<running, recording, step_count, prev_button_pressed, button_pressed>>
    /\ GuiUnchanged

\* server_data_record.py 132, 135: prev_button_pressed = button_pressed, then
\* the record branch when recording, else the display and the next iteration.
UpdatePrevButton ==
    /\ main_pc = "r132"
    /\ prev_button_pressed' = button_pressed
    /\ main_pc' = IF recording THEN "r175" ELSE "r106"
    /\ UNCHANGED <<running, recording, step_count, button_pressed, episode>>
    /\ GuiUnchanged

\* The record branch counting the iteration before the pipeline is read:
\* a failed read skips the item and not the index.
ReadPipeline_counting ==
    /\ main_pc = "r175"
    /\ \E ok \in BOOLEAN :
         IF ok THEN main_pc' = "r195" /\ step_count' = step_count
         ELSE main_pc' = "r106" /\ step_count' = step_count + 1
    /\ UNCHANGED <<running, recording, prev_button_pressed, button_pressed, episode>>
    /\ GuiUnchanged

\* server_data_record.py 137, 171-192: data_dict = {'idx': step_count}; the
\* Redis pipeline is executed; when it raises the iteration is given up
\* (continue), else the item goes to the recorder.
ReadPipeline ==
    /\ main_pc = "r175"
    /\ \E ok \in BOOLEAN :
         main_pc' = IF ok THEN "r195" ELSE "r106"
    /\ UNCHANGED <<running, recording, step_count, prev_button_pressed, button_pressed, episode>>
    /\ GuiUnchanged

\* server_data_record.py 195: recorder.add_item(data_dict)
add_item ==
    /\ main_pc = "r195"
    /\ episode' = [episode EXCEPT !.idx = Append(@, step_count)]
    /\ main_pc' = "r211"
    /\ UNCHANGED <<running, recording, step_count, prev_button_pressed, button_pressed>>
    /\ GuiUnchanged

\* server_data_record.py 211: step_count += 1, and the next iteration.
IncrementStepCount ==
    /\ main_pc = "r211"
    /\ step_count' = step_count + 1
    /\ main_pc' = "r106"
    /\ UNCHANGED <<running, recording, prev_button_pressed, button_pressed, episode>>
    /\ GuiUnchanged

\* ------------------------------------------------------------ specification
\* The steps of start() once dispatched.
StartStep(p) ==
    \/ _start_remote(p) \/ _start_spawn(p) \/ _start_set_running(p) \/ _start_set_status(p)

\* The steps of kill() once dispatched or called.
KillStep(p) ==
    \/ CallKill(p) \/ _kill_sigterm(p) \/ _kill_sleep(p) \/ _kill_poll(p)
    \/ _kill_sigkill(p) \/ _kill_cleanup_begin(p) \/ _kill_cleanup(p)
    \/ _kill_set_running(p) \/ _kill_set_status(p)

MonitorStep(p, i) ==
    \/ _monitor_loop(p, i) \/ _monitor_readline(p, i) \/ _monitor_summary(p, i)
    \/ _monitor_set_running(p, i) \/ _monitor_set_status(p, i)
    \/ _monitor_error_running(p, i) \/ _monitor_error_status(p, i)

\* The steps of a reader thread whose child prints nothing: readline() only
\* ever returns at end-of-file.
QuietMonitorStep(p, i) ==
    \/ _monitor_loop(p, i) \/ _monitor_readline(p, i) \/ _monitor_summary(p, i)
    \/ _monitor_set_running(p, i) \/ _monitor_set_status(p, i)

\* The threads beside the main thread, and the subprocesses.
Background ==
    \/ \E p \in Panels : _output_reader(p)
    \/ \E p \in Panels, i \in Spawns : MonitorStep(p, i) \/ ProcWrite(p, i) \/ ProcExit(p, i)

\* No button of the panel has had an effect on it yet.
Untouched(q) == process[q] = 0 /\ status[q] = "OFFLINE"

\* Spec: the operator works the buttons of one panel, either of them, and
\* the emergency stop.  Panels share no state, so what one panel can do is
\* what it can do here.
Next ==
    \/ \E p \in Panels :
          /\ \A q \in Panels \ {p} : Untouched(q)
          /\ (PressStart(p) \/ PressKill(p) \/ clear_output(p))
    \/ PressEmergencyStop \/ _emergency_stop_visit \/ _emergency_stop_report
    \/ \E p \in Panels : StartStep(p) \/ KillStep(p)
    \/ Background

Spec == Init /\ [][Next]_vars

\* The state in which the panels of S have been started and are online,
\* each with its child running, its reader thread at the loop test and its
\* output delivered, and the other panels have not been used.
Started(S) ==
    /\ is_running = [p \in Panels |-> p \in S]
    /\ status = [p \in Panels |-> status_texts(IF p \in S THEN "running" ELSE "stopped")]
    /\ process = [p \in Panels |-> IF p \in S THEN 1 ELSE 0]
    /\ procs = [p \in Panels |-> [i \in Spawns |->
                   IF p \in S /\ i = 1 THEN "alive" ELSE "none"]]
    /\ pipe = [p \in Panels |-> [i \in Spawns |-> FALSE]]
    /\ mon = [p \in Panels |-> [i \in Spawns |->
                 IF p \in S /\ i = 1 THEN [pc |-> "m340", tgt |-> 0] ELSE NoMon]]
    /\ InitOutput
    /\ InitRecorder
    /\ InitCenter
    /\ ui = NoCall
    /\ ncalls = 0

\* SpecStop: a remote panel with a cleanup command and a local panel are
\* online; the operator presses the emergency stop.
InitStop == Started({"neck", "teleop"})

NextStop ==
    \/ PressEmergencyStop \/ _emergency_stop_visit \/ _emergency_stop_report
    \/ \E p \in Panels : KillStep(p)
    \/ Background

SpecStop == InitStop /\ [][NextStop]_vars

\* SpecOutput: producers put chunks into the panels' queues; the consumer
\* threads and the idle main loop bring them to the text boxes.
NextOutput ==
    \/ \E p \in Panels, text \in Chunks : Put(p, text)
    \/ \E p \in Panels : _output_reader_get(p)
    \/ _insert_text

SpecOutput == Init /\ [][NextOutput]_vars

\* SpecGroup: the operator presses "Start G1 Servers"; the panels it starts
\* run and exit on their own.  The children print nothing here: what a child
\* prints reaches the reader thread and the queue, not the main thread.
NextGroup ==
    \/ PressStartG1 \/ _start_g1_servers_visit \/ _start_g1_servers_sleep
    \/ _start_g1_servers_report
    \/ \E p \in Panels : CallStart(p) \/ StartStep(p)
    \/ \E p \in Panels : _output_reader(p)
    \/ \E p \in Panels, i \in Spawns : QuietMonitorStep(p, i) \/ ProcExit(p, i)

SpecGroup == Init /\ [][NextGroup]_vars

\* SpecRestart: one panel, any of them, is online with its child running;
\* the operator works its buttons and the emergency stop as in Spec.
InitRestart == \E p \in Panels : Started({p})

SpecRestart == InitRestart /\ [][Next]_vars

\* SpecRun: the operator only starts panels, kill() is never called.  The
\* threads of the program are scheduled fairly: a reader thread, the queue's
\* consumer and the main thread inside start() each take their next step
\* when they can.  Nothing is assumed of the children or of the operator.
NextRun ==
    \/ \E p \in Panels : (\A q \in Panels \ {p} : Untouched(q)) /\ PressStart(p)
    \/ \E p \in Panels : StartStep(p)
    \/ Background

FairRun ==
    /\ \A p \in Panels : WF_vars(StartStep(p)) /\ WF_vars(_output_reader(p))
    /\ \A p \in Panels, i \in Spawns : WF_vars(MonitorStep(p, i))

SpecRun == Init /\ [][NextRun]_vars /\ FairRun

\* SpecSsh: a remote panel whose command and cleanup command are any texts
\* (one of the two ranges over every bounded text, the other over the
\* samples); start and cleanup each build their ssh vector.
InitSsh ==
    /\ \E a \in Texts, b \in SampleTexts :
         \/ remote = [NoRemote EXCEPT !.command = a, !.custom_kill_cmd = b]
         \/ remote = [NoRemote EXCEPT !.command = b, !.custom_kill_cmd = a]
    /\ is_running = [p \in Panels |-> FALSE]
    /\ status = [p \in Panels |-> "OFFLINE"]
    /\ process = [p \in Panels |-> 0]
    /\ procs = [p \in Panels |-> [i \in Spawns |-> "none"]]
    /\ pipe = [p \in Panels |-> [i \in Spawns |-> FALSE]]
    /\ mon = [p \in Panels |-> [i \in Spawns |-> NoMon]]
    /\ InitOutput
    /\ InitRecorder
    /\ probe = [i \in Probes |-> IF i = 1 THEN [NoProbe EXCEPT !.pc = "run"] ELSE NoProbe]
    /\ after0 = <<>>
    /\ g1_status_label = "G1 OFFLINE"
    /\ ui = NoCall
    /\ ncalls = 0

NextSsh == BuildStart \/ BuildCleanup

SpecSsh == InitSsh /\ [][NextSsh]_vars

\* SpecProbe: the connection test.  The operator presses Test SSH and starts
\* the neck panel, which keeps the main thread busy for the steps of start();
\* the chunks start() logs are taken off the queue.  The probe threads and
\* the main thread are scheduled fairly.
NextProbe ==
    \/ _test_g1_connection
    \/ \E i \in Probes, outcome \in Outcomes : test_connection(i, outcome)
    \/ _update_g1_status
    \/ PressStart("neck")
    \/ StartStep("neck")
    \/ _output_reader("neck")

FairProbe ==
    /\ \A i \in Probes : WF_vars(\E outcome \in Outcomes : test_connection(i, outcome))
    /\ WF_vars(_update_g1_status)
    /\ WF_vars(StartStep("neck"))
    /\ WF_vars(_output_reader("neck"))

SpecProbe == Init /\ [][NextProbe]_vars /\ FairProbe

\* SpecOutputFair: SpecOutput with the consumer thread of every panel and the
\* idle main loop scheduled fairly; nothing is assumed of the producers.
FairOutput ==
    /\ \A p \in Panels : WF_vars(_output_reader_get(p))
    /\ WF_vars(_insert_text)

SpecOutputFair == Init /\ [][NextOutput]_vars /\ FairOutput

\* SpecKill: the operator starts and kills the panels from their buttons; the
\* children print nothing and end when they like.  The main thread inside
\* kill() and the queues' consumer threads are scheduled fairly.  A step of
\* kill() waits for nothing in the code (put never blocks); in the model it
\* waits for room in the bounded queue, which the consumer makes again and
\* again, hence the strong fairness.  Nothing is assumed of the children,
\* the reader threads or the operator.
NextKill ==
    \/ \E p \in Panels :
          /\ \A q \in Panels \ {p} : Untouched(q)
          /\ (PressStart(p) \/ PressKill(p))
    \/ \E p \in Panels :
          \/ StartStep(p)
          \/ _kill_sigterm(p) \/ _kill_sleep(p) \/ _kill_poll(p) \/ _kill_sigkill(p)
          \/ _kill_cleanup_begin(p) \/ _kill_cleanup(p)
          \/ _kill_set_running(p) \/ _kill_set_status(p)
          \/ _output_reader(p)
    \/ \E p \in Panels, i \in Spawns : QuietMonitorStep(p, i) \/ ProcExit(p, i)

FairKill ==
    /\ \A p \in Panels : SF_vars(KillStep(p)) /\ WF_vars(_output_reader(p))

SpecKill == Init /\ [][NextKill]_vars /\ FairKill

\* SpecClear: the output channel of SpecOutput with the CLEAR button.
NextClear ==
    \/ NextOutput
    \/ \E p \in Panels : clear_output(p)

SpecClear == Init /\ [][NextClear]_vars

\* SpecRecorder: the loop of server_data_record.main with any controller
\* input, any outcome of create_episode and any outcome of the pipeline read.
NextRecorder ==
    \/ ReadController \/ ToggleRecording \/ create_episode \/ save_episode
    \/ UpdatePrevButton \/ ReadPipeline \/ add_item \/ IncrementStepCount

SpecRecorder == Init /\ [][NextRecorder]_vars

\* ------------------------------------------------------------------ claims
\* The texts waiting in p's queue.
Queued(p) == {output_queue[p][k] : k \in 1..Len(output_queue[p])}

\* kill() is running on p past its entry test: is_running was true there.
KillRan(p) == ui.p = p /\ ui.pc \in KillPcs \ {"k359"}

\* This step is the return of a kill() that found is_running true.
KillReturns(p) == KillRan(p) /\ ui'.pc \notin KillPcs

\* The child the panel's handle names is running.
HandleAlive(p) == process[p] # 0 /\ procs[p][process[p]] = "alive"

\* C1: when _emergency_stop returns after the kill path of exactly one panel
\* failed, every other panel that was running when it began has
\* is_running = False and the OFFLINE label.
C1_OthersOfflineAfterStop ==
    [][(ui.fn = "_emergency_stop" /\ ui'.pc = "idle" /\ Cardinality(ui.failed) = 1)
         => \A j \in ui.began \ ui.failed :
               ~is_running'[j] /\ status'[j] = "OFFLINE"]_vars

\* C2: _emergency_stop passes over no panel whose subprocess is running when
\* the panel is visited: it calls that panel's kill().
C2_NoLivePanelSkipped ==
    [][\A k \in 1..Len(all_panels) :
          (/\ ui.fn = "_emergency_stop" /\ ui.pc = "es859" /\ ui.i = k
           /\ HandleAlive(all_panels[k])
           /\ ui' # ui)
          => ui'.pc = "k359" /\ ui'.p = all_panels[k]]_vars

\* C3: when a kill() that found is_running true returns, the panel has
\* is_running = False and the OFFLINE label, whichever signals were sent.
C3_KillEndsOffline ==
    [][\A p \in Panels :
          KillReturns(p) => ~is_running'[p] /\ status'[p] = "OFFLINE"]_vars

\* C4: a kill() whose signal delivery raised logs "Kill error" and still
\* returns with is_running = False and the OFFLINE label.
C4_SignalFailureStillOffline ==
    [][\A p \in Panels :
          (KillRan(p) /\ ui.pc \in {"k367", "k370"} /\ GetpgidRaises(p, process[p])
             /\ ui' # ui)
          => /\ output_queue'[p] = Append(output_queue[p], "Kill error")
             /\ ~is_running'[p] /\ status'[p] = "OFFLINE"]_vars

\* C5: whatever the outcome of the cleanup command (exit 0, another code, a
\* timeout, a spawn error), it is logged to the panel's queue, kill() goes on
\* to its state update, and the kill() returns with is_running = False and
\* the OFFLINE label.
C5_CleanupNeverBlocksOffline ==
    [][\A p \in Panels :
          /\ (ui.p = p /\ ui.pc = "k392" /\ ui' # ui)
               => /\ ui'.pc = "k375" /\ ui'.p = p
                  /\ ui'.clean \in CleanupOutcomes
                  /\ output_queue'[p] = Append(output_queue[p], CleanupLine(ui'.clean))
                  /\ is_running' = is_running /\ status' = status
          /\ (KillReturns(p) /\ ui.clean # "none")
               => ~is_running'[p] /\ status'[p] = "OFFLINE"]_vars

\* C5 witness: a kill() whose cleanup command failed has set is_running = False.
C5_Witness ==
    /\ ui.pc = "k376" /\ ui.clean \in {"fail", "timeout", "spawnerr"}
    /\ ~is_running[ui.p]

\* C6: start() on a panel with is_running true is one step that pushes
\* "Process already running!" and changes nothing else: no spawn, the same
\* handle, no new reader thread, the same is_running and label.
C6_StartWhileRunningIsNoop ==
    [][\A p \in Panels :
          (PressStart(p) /\ is_running[p])
          => /\ output_queue' =
                  [output_queue EXCEPT ![p] = Append(@, "Process already running!")]
             /\ ui'.pc = "idle"
             /\ UNCHANGED <<is_running, status, process, procs, pipe, mon>>]_vars

\* C6 witness: a running panel whose queue holds the "already running" line.
C6_Witness ==
    \E p \in Panels :
        is_running[p] /\ HandleAlive(p) /\ "Process already running!" \in Queued(p)

\* C7: kill() on a panel with is_running false (initially, after an exit,
\* after a kill, after a failed spawn) delivers no signal, runs no cleanup
\* command, and the label is OFFLINE after the call.
C7_KillWhileStoppedLeavesOffline ==
    [][\A p \in Panels :
          ((PressKill(p) \/ CallKill(p)) /\ ~is_running[p])
          => /\ ui'.pc \notin KillPcs
             /\ procs' = procs
             /\ status'[p] = "OFFLINE"]_vars

\* C8: a panel never has two running subprocesses that it spawned.
C8_AtMostOneLiveProcess ==
    \A p \in Panels : Cardinality({i \in Spawns : procs[p][i] = "alive"}) <= 1

\* C9: the ONLINE label implies is_running true and a handle, in every state.
C9_OnlineImpliesRunning ==
    \A p \in Panels : status[p] = "ONLINE" => is_running[p] /\ process[p] # 0

\* C10: the OFFLINE label implies is_running false, in every state.
C10_OfflineImpliesNotRunning ==
    \A p \in Panels : status[p] = "OFFLINE" => ~is_running[p]

\* C11: the chunks a panel's text box has received are, in order, the first
\* chunks that were put into the panel's queue: nothing is delivered out of
\* put order.
C11_FifoDelivery ==
    \A p \in Panels :
        /\ Len(output_text[p]) <= Len(produced[p])
        /\ output_text[p] = SubSeq(produced[p], 1, Len(output_text[p]))

\* C11 witness: two different chunks have been delivered to one text box
\* while a third is still on its way.
C11_Witness ==
    \E p \in Panels :
        /\ Len(output_text[p]) >= 2 /\ output_text[p][1] # output_text[p][2]
        /\ Len(produced[p]) > Len(output_text[p])

\* C13: _start_g1_servers returns only after it has passed its last panel,
\* also when the spawn of an earlier panel failed; at every panel it visits
\* whose is_running is false it calls start(); and a start() of the run
\* whose spawn succeeded puts the ONLINE label on its panel.
C13_GroupStartGoesOn ==
    [][ui.fn = "_start_g1_servers" =>
         /\ ui'.pc = "idle" => ui.i > Len(g1_servers)
         /\ \A k \in 1..Len(g1_servers) :
              (ui.pc = "g820" /\ ui.i = k /\ ~is_running[g1_servers[k]] /\ ui' # ui)
              => ui'.pc = "s277" /\ ui'.p = g1_servers[k]
         /\ (ui.pc = "s304" /\ ui' # ui) => status'[ui.p] = "ONLINE"]_vars

\* C13 witness: in one run the spawn of the first panel failed, leaving it
\* ERROR, and the second panel was started and is ONLINE.
C13_Witness ==
    /\ ui.fn = "_start_g1_servers"
    /\ g1_servers[1] \in ui.failed /\ status[g1_servers[1]] = "ERROR"
    /\ g1_servers[2] \in ui.began
    /\ is_running[g1_servers[2]] /\ status[g1_servers[2]] = "ONLINE"

\* The reader threads of p that read, or are about to read, the output
\* stream of child i: in readline() on it, or at the loop test with the
\* handle naming it.
Readers(p, i) ==
    {j \in Spawns : \/ mon[p][j].pc = "m341" /\ mon[p][j].tgt = i
                    \/ mon[p][j].pc = "m340" /\ process[p] = i}

\* C12: a start() on a panel with is_running false first sets the STARTING
\* label, and returns in one of two ways: after a successful spawn with
\* is_running true, the ONLINE label and exactly one reader thread launched;
\* or after a failed spawn with the ERROR label, is_running false, no reader
\* thread launched and one diagnostic line pushed.
C12_StartOutcomes ==
    [][\A p \in Panels :
          /\ (PressStart(p) /\ ~is_running[p]) => status'[p] = "STARTING"
          /\ (ui.fn = "start" /\ ui.p = p /\ ui.pc \in StartPcs /\ ui'.pc = "idle")
             => \/ /\ ui.pc = "s304"
                   /\ is_running'[p] /\ status'[p] = "ONLINE"
                   /\ Cardinality({j \in Spawns : mon'[p][j] # mon[p][j]}) = 1
                   /\ mon[p][process[p]].pc = "none" /\ mon'[p][process[p]].pc = "m340"
                \/ /\ ui.pc = "s294"
                   /\ ~is_running'[p] /\ status'[p] = "ERROR"
                   /\ mon' = mon /\ process' = process
                   /\ output_queue'[p] = Append(output_queue[p],
                          IF is_remote(p) THEN "Connection error" ELSE "Error")]_vars

\* C16: every running child whose reader thread has been launched has exactly
\* one reader thread on its output stream.
C16_OneReaderPerLiveProcess ==
    \A p \in Panels, i \in Spawns :
        (procs[p][i] = "alive" /\ mon[p][i].pc # "none")
        => Cardinality(Readers(p, i)) = 1

\* C14: with no kill(), once the child of a successful start() has exited
\* while the reader thread launched for it is still at work, the panel
\* eventually has is_running = False and the OFFLINE label.
C14_ExitLeadsToOffline ==
    \A p \in Panels, i \in Spawns :
        (/\ process[p] = i /\ procs[p][i] \in {"exited", "reaped"}
         /\ mon[p][i].pc \notin {"none", "done"})
        ~> (~is_running[p] /\ status[p] = "OFFLINE")

\* The vector asks for a pseudo-terminal: "-t" is among its options (every
\* element before the command text, which is the last one).
HasPty(cmd) == \E k \in 1..(Len(cmd) - 1) : cmd[k] = "-t"

\* The text contains "sudo" at some position.
HasSudo(text) == \E k \in 1..(Len(text) - 3) : SubSeq(text, k, k + 3) = sudo

\* The command text a vector carries.
Wrapped(cmd) == cmd[Len(cmd)].text

\* C15: a vector built by _build_ssh_command has "-t" exactly when the text
\* it wraps contains "sudo"; for the cleanup vector that is exactly when the
\* cleanup command contains "sudo", whatever the panel's command is.
C15_PtyIffSudo ==
    /\ remote.ssh_cmd # <<>> =>
         /\ Wrapped(remote.ssh_cmd) = CdHome(remote.command)
         /\ HasPty(remote.ssh_cmd) <=> HasSudo(Wrapped(remote.ssh_cmd))
    /\ remote.cleanup_cmd # <<>> =>
         /\ Wrapped(remote.cleanup_cmd) = remote.custom_kill_cmd
         /\ HasPty(remote.cleanup_cmd) <=> HasSudo(remote.custom_kill_cmd)

\* C15 witness: both vectors are built, the cleanup vector asks for a
\* pseudo-terminal and the start vector does not.
C15_Witness ==
    /\ remote.ssh_cmd # <<>> /\ remote.cleanup_cmd # <<>>
    /\ HasPty(remote.cleanup_cmd) /\ ~HasPty(remote.ssh_cmd)

\* C17: the status label starts as OFFLINE (Init) and every change of it
\* follows an edge of the status machine: OFFLINE to STARTING, STARTING to
\* ONLINE or ERROR, and ONLINE, ERROR or STARTING to OFFLINE.
C17_StatusFollowsEdges ==
    [][\A p \in Panels :
          status'[p] # status[p] =>
            <<status[p], status'[p]>> \in
              {<<"OFFLINE", "STARTING">>, <<"STARTING", "ONLINE">>,
               <<"STARTING", "ERROR">>, <<"ONLINE", "OFFLINE">>,
               <<"ERROR", "OFFLINE">>, <<"STARTING", "OFFLINE">>}]_vars

\* C18: in a kill() the SIGKILL is sent only from line 370, after a SIGTERM
\* of the same call; line 370 is reached only from the poll() of line 369
\* finding the child running, that poll() only from the sleep of 368, and
\* the sleep only from the SIGTERM of 367; a poll() that finds the child
\* gone sends no SIGKILL.
C18_EscalationOrdered ==
    [][\A p \in Panels :
          KillRan(p) =>
            /\ (ui'.sent = "SIGTERM,SIGKILL" /\ ui.sent # ui'.sent)
                 => ui.pc = "k370" /\ ui.sent = "SIGTERM"
            /\ (ui'.pc = "k370" /\ ui.pc # "k370")
                 => ui.pc = "k369" /\ HandleAlive(p) /\ ui.sent = "SIGTERM"
            /\ (ui'.pc = "k369" /\ ui.pc # "k369") => ui.pc = "k368"
            /\ (ui'.pc = "k368" /\ ui.pc # "k368")
                 => ui.pc = "k367" /\ ui.sent = "none" /\ ui'.sent = "SIGTERM"
            /\ (ui.pc = "k369" /\ ~HandleAlive(p) /\ ui' # ui)
                 => ui'.pc \notin {"k369", "k370"} /\ ui'.sent = "SIGTERM"]_vars

\* C18 witness: a kill() has sent SIGTERM and then SIGKILL.
C18_Witness == ui.sent = "SIGTERM,SIGKILL" /\ ui.pre

\* C19: clear_output changes nothing of the panels' process state: the same
\* is_running, handle and label, no child signalled or spawned, the same
\* reader threads.
C19_ClearLeavesProcessState ==
    [][\A p \in Panels :
          clear_output(p) => UNCHANGED <<is_running, status, process, procs, pipe, mon>>]_vars

\* C19 witness: "Output cleared" is queued on a panel that is online with
\* its child running.
C19_Witness ==
    \E p \in Panels :
        /\ "Output cleared" \in Queued(p)
        /\ is_running[p] /\ status[p] = "ONLINE" /\ HandleAlive(p)

\* C20: the press of Test SSH only starts the probe's thread: the main thread
\* is back in its loop with no result computed and nothing registered.  A
\* probe passes true to _update_g1_status if and only if ssh exited with 0,
\* false on another exit code, a timeout or an exception; the label is set
\* from that boolean; no probe is reported twice, and every probe that was
\* started is in the end reported once.
C20_ProbeReportsOnce ==
    /\ [][\A i \in Probes :
            (probe[i].pc = "none" /\ probe'[i].pc = "run")
            => /\ ui'.pc = "idle"
               /\ probe'[i].result = "none" /\ probe'[i].reports = 0
               /\ after0' = after0 /\ g1_status_label' = g1_status_label]_vars
    /\ [][\A i \in Probes :
            probe'[i].reports # probe[i].reports
            => /\ probe[i].pc = "done" /\ ui.pc = "idle"
               /\ g1_status_label' = (IF probe[i].exit = "0" THEN "G1 ONLINE" ELSE "G1 OFFLINE")]_vars
    /\ [](\A i \in Probes :
            /\ probe[i].reports <= 1
            /\ probe[i].pc = "done" => probe[i].result = Bool(probe[i].exit = "0")
            /\ probe[i].pc # "done" => probe[i].result = "none" /\ probe[i].reports = 0)
    /\ \A i \in Probes : (probe[i].pc # "none") ~> (probe[i].reports = 1)

\* C20 witness: one probe whose ssh exited with 0 and one that timed out have
\* both been reported, the first of them while a later probe was still out.
C20_Witness ==
    \E i, j, k \in Probes :
        /\ probe[i].exit = "0" /\ probe[i].result = "true" /\ probe[i].reports = 1
        /\ probe[j].exit = "timeout" /\ probe[j].result = "false" /\ probe[j].reports = 1
        /\ probe[k].pc = "run"

\* C21: the reader thread started for an earlier child of a panel never
\* executes self.is_running = False (349) or the OFFLINE label (350) while
\* the panel's handle names a later child that is running.
C21_StaleExitPathIsSilent ==
    [][\A p \in Panels : \A i \in Spawns :
          ~ /\ mon[p][i].pc \in {"m349", "m350"}
            /\ mon'[p][i].pc # mon[p][i].pc
            /\ process[p] > i
            /\ HandleAlive(p)]_vars


\* C22: when a reader thread pushes the summary line of a child (gui.py 347)
\* no line that child wrote is left unread in its pipe.
C22_SummaryAfterAllLines ==
    [][\A p \in Panels : \A i \in Spawns :
          (mon[p][i].pc = "m345" /\ mon'[p][i].pc = "m349" /\ process[p] # 0)
          => ~pipe[p][process[p]]]_vars


\* C23: a step of a reader thread sends no signal (no running child stops
\* running in it, and the signals kill() has sent are the same), spawns
\* nothing and runs no command (no new child, the same handle, nothing
\* wrapped for ssh, no probe started); what it writes is its own panel's
\* queue, is_running at lines 349 and 354 and the label at lines 350 and 355.
\* Its poll() collects the exit status of a child that has ended, and its
\* readline() takes lines out of the pipe.
C23_ReaderOnlyPushesAndEnds ==
    [][\A p \in Panels : \A i \in Spawns :
          MonitorStep(p, i) =>
            /\ \A q \in Panels : \A j \in Spawns :
                 /\ procs[q][j] = "alive" => procs'[q][j] = "alive"
                 /\ procs[q][j] = "none" => procs'[q][j] = "none"
            /\ UNCHANGED <<process, ui, ncalls, remote, probe, after0>>
            /\ \A q \in Panels \ {p} :
                 /\ output_queue'[q] = output_queue[q]
                 /\ is_running'[q] = is_running[q] /\ status'[q] = status[q]
            /\ is_running'[p] # is_running[p] => mon[p][i].pc \in {"m349", "m354"}
            /\ status'[p] # status[p] => mon[p][i].pc \in {"m350", "m355"}]_vars

\* C23 witness: a reader thread has run to its end after its child's exit:
\* the child is reaped, is_running false and the label OFFLINE written.
C23_Witness ==
    \E p \in Panels : \E i \in Spawns :
        /\ mon[p][i].pc = "done" /\ procs[p][i] = "reaped" /\ process[p] = i
        /\ ~is_running[p] /\ status[p] = "OFFLINE"


\* C24: a kill() that found is_running true on a panel with a cleanup
\* command returns only after that call has run the cleanup command,
\* whatever happened to its signals.
C24_CleanupAlwaysRuns ==
    [][\A p \in Panels :
          (KillReturns(p) /\ custom_kill_cmd(p) # "") => ui.clean # "none"]_vars


\* C25: a panel's handle is not None exactly while one of its children has
\* been spawned and not yet reaped.
C25_HandleIffUnreapedChild ==
    \A p \in Panels :
        process[p] # 0 <=> \E i \in Spawns : procs[p][i] \in {"alive", "exited"}


\* C26: in a run of _start_g1_servers the panels are visited in the order of
\* the list, one index at a time.  start() is entered only from the test of
\* line 820/825, for the panel under visit, with its is_running false; the
\* index moves on only after the sleep of line 822, past a panel found
\* running, or after the start() of the last panel; the sleep is entered
\* only as a start() returns; a child is spawned only for the panel under
\* visit, inside its start(); and a panel found running is passed over with
\* no start() and no spawn.
C26_GroupStartInOrder ==
    [][ui.fn = "_start_g1_servers" =>
         /\ (ui'.pc = "s277" /\ ui.pc # "s277")
              => /\ ui.pc = "g820" /\ ui.i \in 1..Len(g1_servers)
                 /\ ui'.p = g1_servers[ui.i] /\ ui'.i = ui.i
                 /\ ~is_running[g1_servers[ui.i]]
         /\ (ui'.fn = ui.fn /\ ui'.i # ui.i)
              => /\ ui'.i = ui.i + 1
                 /\ \/ ui.pc = "g822"
                    \/ ui.pc = "g820" /\ is_running[g1_servers[ui.i]]
                    \/ ui.pc \in StartPcs /\ ui.i = Len(g1_servers)
         /\ (ui'.pc = "g822" /\ ui.pc # "g822") => ui.pc \in StartPcs
         /\ \A q \in Panels : \A j \in Spawns :
              (procs[q][j] = "none" /\ procs'[q][j] # "none")
              => ui.pc = "s294" /\ q = g1_servers[ui.i] /\ q \in ui.began
         /\ (ui.pc = "g820" /\ ui.i \in 1..Len(g1_servers)
               /\ is_running[g1_servers[ui.i]] /\ ui' # ui)
              => ui'.pc = "g820" /\ procs' = procs /\ process' = process]_vars

\* C26 witness: a run has passed over the first panel, which was running,
\* and has started the second, whose child runs.
C26_Witness ==
    /\ ui.fn = "_start_g1_servers"
    /\ ui.began = {g1_servers[2]}
    /\ is_running[g1_servers[1]] /\ HandleAlive(g1_servers[1])
    /\ HandleAlive(g1_servers[2])


\* C28: the main (Tk event) thread never sits in the delay between the
\* starts of a group start, and never waits for the ssh of a connection
\* test: a probe in subprocess.run leaves the main loop free.
C28_MainThreadNeverInGroupDelay ==
    /\ ~(ui.fn = "_start_g1_servers" /\ ui.pc = "g822")
    /\ \A i \in Probes : probe[i].pc = "run" => ui.fn # "_test_g1_connection"


\* The vector cmd carries the option o, as "-o", o before the host.
HasOption(cmd, o) ==
    \E k \in 1..(Len(cmd) - 2) : cmd[k] = "-o" /\ cmd[k + 1] = o

\* C29: every ssh vector built for a primary or a cleanup command carries
\* StrictHostKeyChecking=no, LogLevel=ERROR and a connect timeout (the
\* ConnectTimeout=5 that the connection test of line 727 passes to ssh),
\* and ends with the host "g1" and the command text as one argument.
C29_FixedConnectionOptions ==
    /\ remote.ssh_cmd # <<>> =>
         /\ HasOption(remote.ssh_cmd, "StrictHostKeyChecking=no")
         /\ HasOption(remote.ssh_cmd, "LogLevel=ERROR")
         /\ HasOption(remote.ssh_cmd, "ConnectTimeout=5")
         /\ remote.ssh_cmd[Len(remote.ssh_cmd) - 1] = "g1"
         /\ Wrapped(remote.ssh_cmd) = CdHome(remote.command)
    /\ remote.cleanup_cmd # <<>> =>
         /\ HasOption(remote.cleanup_cmd, "StrictHostKeyChecking=no")
         /\ HasOption(remote.cleanup_cmd, "LogLevel=ERROR")
         /\ HasOption(remote.cleanup_cmd, "ConnectTimeout=5")
         /\ remote.cleanup_cmd[Len(remote.cleanup_cmd) - 1] = "g1"
         /\ Wrapped(remote.cleanup_cmd) = remote.custom_kill_cmd


\* C30: each failure is caught where it happens and logged to its panel's
\* queue.  A Popen that raises logs "Error" or "Connection error" and
\* start() returns; a reader thread whose readline() raises logs "Monitor
\* error" and goes on in its handler; a kill() whose signal delivery raises
\* logs "Kill error" and returns to its caller, the loop of _emergency_stop
\* going on with the next panel; a cleanup command that fails, times out or
\* cannot be spawned logs "Cleanup failed" or "Cleanup error" and kill()
\* goes on to line 375.
C30_FailuresLoggedAndCaught ==
    [][\A p \in Panels :
          /\ (ui.p = p /\ ui.pc = "s294" /\ ui' # ui /\ procs' = procs)
               => /\ output_queue'[p] = Append(output_queue[p],
                        IF is_remote(p) THEN "Connection error" ELSE "Error")
                  /\ ui'.pc = "idle"
          /\ \A i \in Spawns :
               (mon[p][i].pc = "m341" /\ mon'[p][i] # mon[p][i] /\ mon'[p][i].pc # "m340")
               => /\ output_queue'[p] = Append(output_queue[p], "Monitor error")
                  /\ mon'[p][i].pc = "m354"
          /\ (KillRan(p) /\ ui.pc \in {"k367", "k370"} /\ process[p] # 0
                /\ GetpgidRaises(p, process[p]) /\ ui' # ui)
               => /\ output_queue'[p] = Append(output_queue[p], "Kill error")
                  /\ IF ui.fn = "_emergency_stop"
                     THEN ui'.fn = ui.fn /\ ui'.pc = "es859" /\ ui'.i = ui.i + 1
                     ELSE ui'.pc = "idle"
          /\ (ui.p = p /\ ui.pc = "k392" /\ ui' # ui /\ ui'.clean # "ok")
               => /\ ui'.clean \in {"fail", "timeout", "spawnerr"}
                  /\ output_queue'[p] = Append(output_queue[p], CleanupLine(ui'.clean))
                  /\ CleanupLine(ui'.clean) \in {"Cleanup failed", "Cleanup error"}
                  /\ ui'.pc = "k375"]_vars

\* C30 witness: inside an emergency stop the signal delivery of a kill()
\* has failed, "Kill error" is in that panel's queue and the loop of the
\* emergency stop goes on.
C30_Witness ==
    /\ ui.fn = "_emergency_stop" /\ ui.pc = "es859"
    /\ \E p \in ui.failed : "Kill error" \in Queued(p)


\* The chunks of panel p registered with after_idle and not yet inserted,
\* oldest first.
RECURSIVE Registered(_, _)
Registered(p, cbs) ==
    IF cbs = <<>> THEN <<>>
    ELSE (IF Head(cbs)[1] = p THEN <<Head(cbs)[2]>> ELSE <<>>) \o Registered(p, Tail(cbs))

\* C31: a put is possible whatever is pending in the queue; what was put
\* into a panel's queue is, in put order and once each, what the text box
\* has received, then what waits as idle callbacks, then what is still in
\* the queue; and with the consumer scheduled fairly every chunk put is in
\* the end in the text box.
C31_PutNeverBlocksAllDelivered ==
    /\ [](\A p \in Panels :
            /\ \A text \in Chunks :
                 NProduced(Len(all_panels)) < MaxChunks => ENABLED Put(p, text)
            /\ produced[p] = output_text[p] \o Registered(p, after_idle) \o output_queue[p])
    /\ \A p \in Panels : \A n \in 1..MaxChunks :
         (Len(produced[p]) >= n) ~> (Len(output_text[p]) >= n)

\* C31 witness: three chunks were put into one panel's queue and all three
\* have reached its text box.
C31_Witness ==
    \E p \in Panels :
        /\ Len(output_text[p]) = 3 /\ output_text[p] = produced[p]
        /\ output_queue[p] = <<>> /\ after_idle = <<>>


\* C32: a kill() on a panel whose is_running is false is one step, back to
\* its caller at once; no step of kill() changes a reader thread; and every
\* kill() returns, whatever the child and the reader threads do or fail to do.
C32_KillTerminates ==
    /\ [][\A p \in Panels :
            /\ (PressKill(p) /\ ~is_running[p]) => ui'.pc = "idle"
            /\ KillStep(p) => mon' = mon]_vars
    /\ \A p \in Panels :
         (ui.p = p /\ ui.pc \in KillPcs) ~> ~(ui.p = p /\ ui.pc \in KillPcs)

\* C32 witness: a kill() has sent SIGTERM and SIGKILL and run a cleanup
\* command that timed out, and is at its state update while the panel's
\* reader thread has not moved on from its readline().
C32_Witness ==
    \E i \in Spawns :
        /\ ui.pc = "k375" /\ ui.sent = "SIGTERM,SIGKILL" /\ ui.clean = "timeout"
        /\ mon[ui.p][i].pc = "m341"


\* C33: once clear_output has run on a panel, nothing pushed before it is
\* inserted into the text box.  The "Output cleared" line that clear_output
\* pushes follows, in the queue and among the idle callbacks, everything
\* pushed before the clear: so no insertion into a panel's text box happens
\* while an "Output cleared" of that panel is still behind it on its way.
C33_ClearPurgesPending ==
    [][\A p \in Panels :
          Len(output_text'[p]) = Len(output_text[p]) + 1
          => /\ \A k \in 1..Len(output_queue'[p]) : output_queue'[p][k] # "Output cleared"
             /\ \A k \in 1..Len(after_idle') :
                  after_idle'[k] # <<p, "Output cleared">>]_vars


\* C34: at the step of _emergency_stop that shows "All processes killed
\* successfully!" (gui.py 862) no panel has is_running true and no panel has
\* a running child.
C34_ReportMeansAllStopped ==
    [][_emergency_stop_report =>
         \A p \in Panels :
            /\ ~is_running[p]
            /\ \A i \in Spawns : procs[p][i] # "alive"]_vars


\* C35: save_episode() is called only with an episode open and
\* create_episode() only with none open; outside the two calls recording is
\* true exactly when an episode is open, so a create_episode() that returned
\* False leaves recording false; and a rising edge with no episode open
\* goes to create_episode().
C35_CreateSaveAlternate ==
    /\ [][/\ (main_pc = "r128" /\ main_pc' # main_pc) => episode.open
          /\ (main_pc = "r123" /\ main_pc' # main_pc)
               => ~episode.open /\ recording' = episode'.open
          /\ (main_pc = "r118" /\ main_pc' # main_pc
                /\ button_pressed /\ ~prev_button_pressed)
               => main_pc' = (IF episode.open THEN "r128" ELSE "r123")]_vars
    /\ [](main_pc \notin {"r123", "r128"} => recording = episode.open)

\* C35 witness: an open episode with items in it is about to be saved.
C35_Witness ==
    main_pc = "r128" /\ episode.open /\ episode.idx # <<>>

\* C36: recording changes only in the toggle of an iteration that read the
\* button pressed after an iteration that read it released (or back to
\* False in the create_episode() that follows such a toggle); while the
\* button is read pressed without a release the toggle runs once, in the
\* first of these iterations; and the quit key ends the loop in the step that
\* reads it, with recording and the episode as they were.
C36_ToggleOnRisingEdgeOnly ==
    /\ [][/\ recording' # recording
               => \/ main_pc = "r118" /\ button_pressed /\ ~prev_button_pressed
                  \/ main_pc = "r123" /\ episode.toggles = 1
          /\ episode'.toggles > episode.toggles
               => main_pc = "r118" /\ button_pressed /\ ~prev_button_pressed
          /\ (running /\ ~running')
               => /\ main_pc = "r106" /\ main_pc' = "done"
                  /\ recording' = recording /\ episode'.open = episode.open
                  /\ episode'.toggles <= episode.toggles]_vars
    /\ [](/\ episode.toggles <= 1
          /\ (main_pc \in {"r123", "r128", "r132", "r175", "r195", "r211"} /\ button_pressed)
               => episode.toggles = 1)

\* C36 witness: the button was read pressed in two iterations running and
\* the toggle has run once.
C36_Witness ==
    /\ main_pc = "r132" /\ button_pressed /\ prev_button_pressed
    /\ episode.toggles = 1 /\ recording

\* C37: the idx values passed to add_item() since the episode began are
\* 0, 1, 2, ...; step_count is the number of items added, less one between
\* add_item() and the increment; it changes only in the increment and in the
\* reset of the episode start; and an iteration given up after a failed
\* pipeline read changes neither the items nor step_count.
C37_IdxAreConsecutive ==
    /\ [][/\ step_count' # step_count => main_pc \in {"r211", "r123"}
          /\ (main_pc = "r175" /\ main_pc' = "r106")
               => step_count' = step_count /\ episode' = episode
          /\ main_pc = "r123" => step_count' = 0 /\ episode'.idx = <<>>]_vars
    /\ [](/\ \A k \in 1..Len(episode.idx) : episode.idx[k] = k - 1
          /\ step_count = Len(episode.idx) - (IF main_pc = "r211" THEN 1 ELSE 0))

\* C37 witness: three items have been added to the open episode.
C37_Witness ==
    episode.open /\ Len(episode.idx) >= 3 /\ main_pc = "r106"

====
